---- MODULE Spec2Model ----
(***************************************************************************)
(* Model of src/app.py: the score pipeline extract_data_from_excel and the *)
(* helpers it calls (normalize_dni_value, extract_year,                    *)
(* load_teacher_contract).                                                 *)
(*                                                                         *)
(* Representation.                                                         *)
(*  - A spreadsheet cell is a sequence of one-character strings (the text  *)
(*    str(x) gives for it); the missing cell (pd.isna) is NA.              *)
(*  - A sheet (DataFrame) is a sequence of rows, a row is a record.        *)
(*  - Coerced scores are integers; Average, Percentage and                 *)
(*    Marks_Out_Of_20 are kept in hundredths (12.34 is 1234), which is the *)
(*    precision round(.., 2) leaves.                                       *)
(*  - Key columns are merged as pandas merges object columns: equal values *)
(*    match, and a missing key matches a missing key.                      *)
(***************************************************************************)
EXTENDS Integers, Sequences, FiniteSets, TLC

VARIABLES pc, wb, contract_file, all_data, filtered, final_df

vars == <<pc, wb, contract_file, all_data, filtered, final_df>>

(***************************************************************************)
(* Cells                                                                   *)
(***************************************************************************)
NA == <<"NaN">>

NAYear == 0

Digits == {"0", "1", "2", "3", "4", "5", "6", "7", "8", "9"}

IsDigit(c) == c \in Digits

DigitVal(c) == CHOOSE n \in 0..9 : <<"0", "1", "2", "3", "4", "5", "6", "7", "8", "9">>[n + 1] = c

RECURSIVE StripLeft(_)
StripLeft(s) == IF s # <<>> /\ Head(s) = " " THEN StripLeft(Tail(s)) ELSE s

RECURSIVE StripRight(_)
StripRight(s) ==
    IF s # <<>> /\ s[Len(s)] = " " THEN StripRight(SubSeq(s, 1, Len(s) - 1)) ELSE s

\* str.strip()
Strip(s) == StripRight(StripLeft(s))

\* re.sub(r'\s+', ' ', s)
RECURSIVE CollapseSpaces(_)
CollapseSpaces(s) ==
    IF Len(s) < 2 THEN s
    ELSE IF s[1] = " " /\ s[2] = " " THEN CollapseSpaces(Tail(s))
    ELSE <<s[1]>> \o CollapseSpaces(Tail(s))

\* astype(str): the missing cell becomes the text 'nan'
AsStr(x) == IF x = NA THEN <<"n", "a", "n">> ELSE x

\* re.match(r'^\d+\.0$', s)
MatchesDotZero(s) ==
    /\ Len(s) >= 3
    /\ s[Len(s)] = "0"
    /\ s[Len(s) - 1] = "."
    /\ \A i \in 1..(Len(s) - 2) : IsDigit(s[i])

normalize_dni_value(x) ==
    IF x = NA THEN NA
    ELSE LET s0 == Strip(x)
             s1 == IF MatchesDotZero(s0) THEN SubSeq(s0, 1, Len(s0) - 2) ELSE s0
             s2 == SelectSeq(s1, IsDigit)
         IN  IF s2 = <<>> THEN NA ELSE s2

\* re.search(r'(20\d{2})', s): the positions where a match starts
YearMatches(s) ==
    {i \in 1..(Len(s) - 3) :
        s[i] = "2" /\ s[i + 1] = "0" /\ IsDigit(s[i + 2]) /\ IsDigit(s[i + 3])}

extract_year(value) ==
    IF value = NA THEN NAYear
    ELSE LET m == YearMatches(value)
         IN  IF m = {} THEN NAYear
             ELSE LET i == CHOOSE j \in m : \A k \in m : j <= k
                  IN  2000 + 10 * DigitVal(value[i + 2]) + DigitVal(value[i + 3])

RECURSIVE DigitsToInt(_)
DigitsToInt(s) ==
    IF s = <<>> THEN 0 ELSE 10 * DigitsToInt(SubSeq(s, 1, Len(s) - 1)) + DigitVal(s[Len(s)])

IsUnsigned(s) == s # <<>> /\ \A i \in 1..Len(s) : IsDigit(s[i])

\* pd.to_numeric(col, errors='coerce').fillna(0) on one cell
ToNumericFill0(x) ==
    IF x = NA THEN 0
    ELSE IF IsUnsigned(x) THEN DigitsToInt(x)
    ELSE IF Len(x) >= 2 /\ x[1] = "-" /\ IsUnsigned(Tail(x)) THEN 0 - DigitsToInt(Tail(x))
    ELSE 0

\* round(n / d, 0) for d > 0, ties to even
RoundDiv(n, d) ==
    LET q == (2 * n + d) \div (2 * d)
    IN  IF (2 * n + d) % (2 * d) = 0 /\ q % 2 = 1 THEN q - 1 ELSE q

(***************************************************************************)
(* Columns                                                                 *)
(***************************************************************************)
comp_tec_columns ==
    <<"Zoom_basico", "Zoom_Avanzado", "Grupos_Moodle", "Rubrica", "Padlet", "Nearpod",
      "Tareas_y_foros">>

numeric_columns ==
    <<"induccion", "bus_biblioteca", "diseno_sesion", "Zoom_basico", "Zoom_Avanzado",
      "Grupos_Moodle", "Rubrica", "Padlet", "Nearpod", "Tareas_y_foros", "integracion",
      "rsu", "estress", "hab_comunicacion">>

Range(s) == {s[i] : i \in 1..Len(s)}

RECURSIVE FlattenSeq(_)
FlattenSeq(ss) == IF ss = <<>> THEN <<>> ELSE Head(ss) \o FlattenSeq(Tail(ss))

\* pd.merge(left, right[on and cols], on=on, how='left'): left order kept, one
\* row per matching right row in right order, the right columns missing when
\* nothing matches. Equal keys match, and a missing key matches a missing key.
LeftMerge(left, right, on, cols) ==
    FlattenSeq([i \in 1..Len(left) |->
        LET ms == SelectSeq(right, LAMBDA r : \A k \in on : r[k] = left[i][k])
        IN  IF ms = <<>> THEN <<left[i] @@ [c \in cols |-> NA]>>
            ELSE [j \in 1..Len(ms) |-> left[i] @@ [c \in cols |-> ms[j][c]]]])

\* df.rename(columns={from: to})
Rename(sheet, from, to) ==
    [i \in 1..Len(sheet) |->
        [c \in ((DOMAIN sheet[i]) \ {from}) \cup {to} |->
            IF c = to THEN sheet[i][from] ELSE sheet[i][c]]]

\* df['DNI'] = df['DNI'].apply(normalize_dni_value) on a sheet keyed by DNI
NormalizeDNIColumn(sheet) ==
    [i \in 1..Len(sheet) |-> [sheet[i] EXCEPT !.DNI = normalize_dni_value(@)]]

\* the rows at the positions idx, in order
RowsAt(rows, idx) ==
    FlattenSeq([i \in 1..Len(rows) |-> IF i \in idx THEN <<rows[i]>> ELSE <<>>])

\* a faulty variant of drop_duplicates_DNI: nothing is dropped
drop_duplicates_none(rows) == rows

\* drop_duplicates(subset=['DNI'], keep='first'): missing DNIs count as equal
drop_duplicates_DNI(rows) ==
    RowsAt(rows, {i \in 1..Len(rows) : \A j \in 1..(i - 1) : rows[j].DNI # rows[i].DNI})

(***************************************************************************)
(* load_teacher_contract                                                   *)
(***************************************************************************)
ContractFields == {"dni", "nombres", "paterno", "materno"}

load_teacher_contract(cf) ==
    IF cf.found # ContractFields THEN <<>>
    ELSE LET out == [i \in 1..Len(cf.rows) |->
                        [DNI      |-> normalize_dni_value(cf.rows[i].dni),
                         Nombre   |-> Strip(AsStr(cf.rows[i].nombres)),
                         Apellido |-> Strip(CollapseSpaces(
                                         Strip(AsStr(cf.rows[i].paterno)) \o <<" ">>
                                         \o Strip(AsStr(cf.rows[i].materno))))]]
             kept == SelectSeq(out, LAMBDA r : r.DNI # NA /\ r.DNI # <<>>)
         IN  drop_duplicates_DNI(kept)

(***************************************************************************)
(* extract_data_from_excel, block by block                                 *)
(***************************************************************************)
\* lines 90-108: the two induction sheets renamed, concatenated, DNI and Year
BaseTable(w) ==
    LET nota_induccion_clean == [i \in 1..Len(w.nota) |->
            [Periodo   |-> w.nota[i].PERIODO, DNI |-> w.nota[i].DNI,
             Nombre    |-> w.nota[i].Nombre, Apellido |-> w.nota[i].Apellido,
             induccion |-> w.nota[i].Total]]
        induction_clean == [i \in 1..Len(w.induccion) |->
            [Periodo   |-> w.induccion[i].Periodo, DNI |-> w.induccion[i].DNI,
             Nombre    |-> w.induccion[i].Nombre, Apellido |-> w.induccion[i].Apellido,
             induccion |-> w.induccion[i].Calificacion]]
        cat == nota_induccion_clean \o induction_clean
    IN  [i \in 1..Len(cat) |->
            [cat[i] EXCEPT !.DNI = normalize_dni_value(@)]
            @@ [Year |-> extract_year(cat[i].Periodo)]]

MergeBus(ad, w) ==
    LeftMerge(ad, Rename(NormalizeDNIColumn(w.bus), "Promedio", "bus_biblioteca"),
              {"DNI"}, {"bus_biblioteca"})

MergeDiseno(ad, w) ==
    LeftMerge(ad, Rename(w.diseno, "Promedio", "diseno_sesion"),
              {"Nombre", "Apellido"}, {"diseno_sesion"})

\* comp_tec_df[[...the seven renamed columns...]] raises KeyError when one is absent
CompTecKeyError(w) == w.comp_tec_cols # Range(comp_tec_columns)

MergeCompTec(ad, w) ==
    LeftMerge(ad, w.comp_tec, {"Nombre", "Apellido"}, Range(comp_tec_columns))

MergeIntegracion(ad, w) ==
    LeftMerge(ad, Rename(w.integracion, "Tarea", "integracion"),
              {"Nombre", "Apellido"}, {"integracion"})

MergeRsu(ad, w) ==
    LeftMerge(ad, Rename(NormalizeDNIColumn(w.rsu), "Tarea", "rsu"), {"DNI"}, {"rsu"})

MergeEstress(ad, w) ==
    LeftMerge(ad, Rename(NormalizeDNIColumn(w.estress), "Tarea", "estress"),
              {"DNI"}, {"estress"})

MergeHabCom(ad, w) ==
    LeftMerge(ad, Rename(NormalizeDNIColumn(w.hab), "Tarea", "hab_comunicacion"),
              {"DNI"}, {"hab_comunicacion"})

\* lines 179-180
ContractTable(cf) ==
    SelectSeq(NormalizeDNIColumn(load_teacher_contract(cf)), LAMBDA r : r.DNI # NA)

\* a faulty variant of InContract: the filter lets every row through
InContractAny(dni, contract) == TRUE

\* all_data['DNI'].isin(contract['DNI'])
InContract(dni, contract) == \E i \in 1..Len(contract) : contract[i].DNI = dni

\* a faulty variant of FillName: the contract's name replaces the base's
FillNameOverride(base, fromContract) == fromContract

\* col.fillna(col_contract)
FillName(base, fromContract) == IF base = NA THEN fromContract ELSE base

\* lines 183-191: keep the DNIs of the contract, then fill missing names from it
ApplyContract(ad, contract) ==
    LET kept == SelectSeq(ad, LAMBDA r : InContract(r.DNI, contract))
        \* suffixes=('', '_contract')
        merged == LeftMerge(kept,
                      Rename(Rename(contract, "Nombre", "Nombre_contract"),
                             "Apellido", "Apellido_contract"),
                      {"DNI"}, {"Nombre_contract", "Apellido_contract"})
    IN  [i \in 1..Len(merged) |->
            [c \in (DOMAIN merged[i]) \ {"Nombre_contract", "Apellido_contract"} |->
                IF c = "Nombre" THEN FillName(merged[i].Nombre, merged[i].Nombre_contract)
                ELSE IF c = "Apellido"
                     THEN FillName(merged[i].Apellido, merged[i].Apellido_contract)
                ELSE merged[i][c]]]

ContractStep(ad, cf) == IF cf.supplied THEN ApplyContract(ad, ContractTable(cf)) ELSE ad

\* lines 200-201
CoerceScores(ad) ==
    [i \in 1..Len(ad) |->
        [c \in DOMAIN ad[i] |->
            IF c \in Range(numeric_columns) THEN ToNumericFill0(ad[i][c]) ELSE ad[i][c]]]

RECURSIVE SumOver(_, _)
SumOver(row, cols) == IF cols = <<>> THEN 0 ELSE row[Head(cols)] + SumOver(row, Tail(cols))

\* a faulty variant of calculate_percentage: zero scores are counted as available
calculate_percentage_nonneg(row) ==
    LET available == Cardinality({c \in Range(numeric_columns) : row[c] >= 0})
    IN  IF Len(numeric_columns) # 0
        THEN RoundDiv(available * 10000, Len(numeric_columns))
        ELSE 0

\* round(available / len(numeric_columns) * 100, 2), in hundredths
calculate_percentage(row) ==
    LET available == Cardinality({c \in Range(numeric_columns) : row[c] > 0})
    IN  IF Len(numeric_columns) # 0
        THEN RoundDiv(available * 10000, Len(numeric_columns))
        ELSE 0

\* lines 204-212
AddMetrics(ad) ==
    [i \in 1..Len(ad) |->
        LET pct == calculate_percentage(ad[i])
        IN  ad[i] @@ [Average         |-> RoundDiv(SumOver(ad[i], numeric_columns) * 100,
                                                   Len(numeric_columns)),
                      Percentage      |-> pct,
                      Marks_Out_Of_20 |-> RoundDiv(pct, 5)]]

\* a faulty variant of HasAnyScore: rows without any score are kept
HasAnyScoreAlways(row) == TRUE

\* filtered[numeric_columns].sum(axis=1) > 0
HasAnyScore(row) == SumOver(row, numeric_columns) > 0

\* lines 215-216
FilterRows(ad) ==
    SelectSeq(SelectSeq(ad, LAMBDA r : r.Year \in {2024, 2025}), HasAnyScore)

YearPref(y) == IF y = 2025 THEN 1 ELSE 0

\* a faulty variant of SortsBefore: the year preference is left out of the sort keys
SortsBeforeNoYearPref(a, b) ==
    \/ a.Marks_Out_Of_20 > b.Marks_Out_Of_20
    \/ /\ a.Marks_Out_Of_20 = b.Marks_Out_Of_20
       /\ a.Average > b.Average

\* by=['Marks_Out_Of_20', 'Average', 'YearPref'], all descending: a sorts before b
SortsBefore(a, b) ==
    \/ a.Marks_Out_Of_20 > b.Marks_Out_Of_20
    \/ /\ a.Marks_Out_Of_20 = b.Marks_Out_Of_20
       /\ a.Average > b.Average
    \/ /\ a.Marks_Out_Of_20 = b.Marks_Out_Of_20
       /\ a.Average = b.Average
       /\ a.YearPref > b.YearPref

\* x, a later row, goes before the first row it sorts before (the sort is stable)
InsertSorted(x, s) ==
    LET ps == {i \in 1..Len(s) : SortsBefore(x, s[i])}
        p  == IF ps = {} THEN Len(s) + 1 ELSE CHOOSE i \in ps : \A j \in ps : i <= j
    IN  SubSeq(s, 1, p - 1) \o <<x>> \o SubSeq(s, p, Len(s))

RECURSIVE SortPrefix(_, _)
SortPrefix(rows, n) ==
    IF n = 0 THEN <<>> ELSE InsertSorted(rows[n], SortPrefix(rows, n - 1))

sort_values(rows) == SortPrefix(rows, Len(rows))

final_columns ==
    <<"Periodo", "Highest_Score_Year", "DNI", "Nombre", "Apellido">>
    \o numeric_columns \o <<"Average", "Marks_Out_Of_20", "Percentage">>

\* lines 223-241
Reduce(flt) ==
    LET withPref  == [i \in 1..Len(flt) |-> flt[i] @@ [YearPref |-> YearPref(flt[i].Year)]]
        sorted_df == sort_values(withPref)
        highest   == drop_duplicates_DNI(sorted_df)
    IN  [i \in 1..Len(highest) |->
            [c \in Range(final_columns) |->
                IF c = "Highest_Score_Year" THEN highest[i].Year ELSE highest[i][c]]]

\* the whole function for a workbook whose sheets and columns are all present
Metrics(w, cf) ==
    AddMetrics(CoerceScores(ContractStep(
        MergeHabCom(MergeEstress(MergeRsu(MergeIntegracion(MergeCompTec(MergeDiseno(
            MergeBus(BaseTable(w), w), w), w), w), w), w), w), cf)))

extract_data_from_excel(w, cf) ==
    LET flt == FilterRows(Metrics(w, cf))
    IN  IF flt = <<>> THEN <<>> ELSE Reduce(flt)

(***************************************************************************)
(* Inputs: the cells, rows and sheets the workbooks are drawn from         *)
(***************************************************************************)
MaxRows == 2

SeqUpTo(S, n) == UNION {[1..k -> S] : k \in 0..n}

P24 == <<"2", "0", "2", "4">>
P25 == <<"2", "0", "2", "5", "-", "I">>
PShort == <<"2", "4">>

D1 == <<"1">>
D1Float == <<"1", ".", "0">>
D2 == <<"2">>
DNone == <<"-">>

NameA == <<"A">>
NameASpace == <<"A", " ">>
NameB == <<"B">>

S12 == <<"1", "2">>
S7 == <<"7">>
S0 == <<"0">>
S99 == <<"9", "9">>
SText == <<"x">>
SNeg == <<"-", "5">>

InductionRow(p, d, n, a, c) ==
    [Periodo |-> p, DNI |-> d, Nombre |-> n, Apellido |-> a, Calificacion |-> c]

NotaRow(p, d, n, a, t) ==
    [PERIODO |-> p, DNI |-> d, Nombre |-> n, Apellido |-> a, Total |-> t]

CompTecRow(n, a, cols, k) ==
    [Nombre |-> n, Apellido |-> a]
    @@ [c \in cols |->
           IF \E i \in 1..k : comp_tec_columns[i] = c THEN S12 ELSE NA]

AllCompTec == Range(comp_tec_columns)

Workbook(nota, ind, bus, dis, cols, ct, int, rsu, est, hab) ==
    [nota |-> nota, induccion |-> ind, bus |-> bus, diseno |-> dis,
     comp_tec_cols |-> cols, comp_tec |-> ct, integracion |-> int,
     rsu |-> rsu, estress |-> est, hab |-> hab]

NoContract == [supplied |-> FALSE, found |-> {}, rows |-> <<>>]

ReducerWorkbook(ind) ==
    Workbook(<<>>, ind, <<>>, <<[Nombre |-> NameA, Apellido |-> NameB, Promedio |-> S7]>>,
             AllCompTec, <<>>, <<>>, <<>>, <<>>, <<[DNI |-> DNone, Tarea |-> S12]>>)

\* the first induction sheet's rows vary; one session-design row and one
\* communication row; no contract
ReducerInputs ==
    {<<ReducerWorkbook(ind), NoContract>> :
        ind \in SeqUpTo({InductionRow(p, d, n, NameB, c) :
                             p \in {P24, P25}, d \in {D1, D2},
                             n \in {NameA, NameASpace}, c \in {S12, S0}}
                         \cup {InductionRow(p, DNone, NameA, NameB, c) :
                                  p \in {P24, P25}, c \in {S12, S0}}, MaxRows)}

\* the same with a contract that lists person 1
ReducerContractInputs ==
    {<<ReducerWorkbook(ind),
       [supplied |-> TRUE, found |-> ContractFields,
        rows |-> <<[dni |-> D1Float, nombres |-> <<"Z">>, paterno |-> <<"P">>,
                    materno |-> <<"M">>]>>]>> :
        ind \in SeqUpTo({InductionRow(p, d, n, NameB, c) :
                            p \in {P24, P25}, d \in {D1, D2},
                            n \in {NameA, NameASpace}, c \in {S12, S0}}, MaxRows)}

\* one row of the second induction sheet, every cell free
CellInputs ==
    {<<Workbook(<<NotaRow(p, d, n, NameB, t)>>,
                <<InductionRow(P24, D1, NameA, NameB, S12)>>,
                <<[DNI |-> D1Float, Promedio |-> S7]>>, <<>>, AllCompTec, <<>>, <<>>,
                <<>>, <<>>, <<>>),
       NoContract>> :
        p \in {P24, P25, PShort, NA}, d \in {D1, D1Float, D2, DNone, NA},
        n \in {NameA, NameASpace, NA}, t \in {S12, S7, S0, SText, SNeg, NA}}

AuxBase ==
    <<InductionRow(P24, D1, NameA, NameB, S12), InductionRow(P25, DNone, NameASpace, NameB, S0),
      InductionRow(P25, D2, NA, NA, S7)>>

DniSheets(col) ==
    SeqUpTo({[DNI |-> d] @@ (col :> v) : d \in {D1Float, D2, DNone}, v \in {S12, SText, SNeg}},
            MaxRows)

NameSheets(col) ==
    SeqUpTo({[Nombre |-> n, Apellido |-> NameB] @@ (col :> v) :
                n \in {NameA, NameASpace, NA}, v \in {S12, SText}}, MaxRows)

\* one auxiliary sheet varies at a time
AuxInputs ==
    LET W(bus, dis, cols, ct, int, rsu, est, hab) ==
            <<Workbook(<<>>, AuxBase, bus, dis, cols, ct, int, rsu, est, hab), NoContract>>
    IN  {W(x, <<>>, AllCompTec, <<>>, <<>>, <<>>, <<>>, <<>>) : x \in DniSheets("Promedio")}
        \cup {W(<<>>, <<>>, AllCompTec, <<>>, <<>>, x, <<>>, <<>>) : x \in DniSheets("Tarea")}
        \cup {W(<<>>, <<>>, AllCompTec, <<>>, <<>>, <<>>, x, <<>>) : x \in DniSheets("Tarea")}
        \cup {W(<<>>, <<>>, AllCompTec, <<>>, <<>>, <<>>, <<>>, x) : x \in DniSheets("Tarea")}
        \cup {W(<<>>, x, AllCompTec, <<>>, <<>>, <<>>, <<>>, <<>>) : x \in NameSheets("Promedio")}
        \cup {W(<<>>, <<>>, AllCompTec, <<>>, x, <<>>, <<>>, <<>>) : x \in NameSheets("Tarea")}
        \cup {W(<<>>, <<>>, cols, <<CompTecRow(n, NameB, cols, k)>>, <<>>, <<>>, <<>>, <<>>) :
                 cols \in {AllCompTec} \cup {AllCompTec \ {c} : c \in AllCompTec},
                 n \in {NameA, NameASpace}, k \in 0..Len(comp_tec_columns)}

OneOrNone(row) == {<<>>, <<row>>}

\* which of the fourteen components person 1 has; person 2 has the name-keyed ones
MetricInputs ==
    {<<Workbook(<<>>,
                <<InductionRow(P24, D1, NameA, NameB, c), InductionRow(P25, D2, NameA, NameB, S99)>>,
                bus, dis, AllCompTec, <<CompTecRow(NameA, NameB, AllCompTec, k)>>, int,
                rsu, est, hab),
       NoContract>> :
        c \in {S12, S0},
        bus \in OneOrNone([DNI |-> D1, Promedio |-> S7]),
        dis \in OneOrNone([Nombre |-> NameA, Apellido |-> NameB, Promedio |-> S12]),
        k \in 0..Len(comp_tec_columns),
        int \in OneOrNone([Nombre |-> NameA, Apellido |-> NameB, Tarea |-> S7]),
        rsu \in OneOrNone([DNI |-> D1, Tarea |-> S12]),
        est \in OneOrNone([DNI |-> D1, Tarea |-> S7]),
        hab \in OneOrNone([DNI |-> D1, Tarea |-> S12])}

ContractBase ==
    <<InductionRow(P24, D1, NameA, NameB, S12), InductionRow(P25, D1, NA, NA, S12),
      InductionRow(P25, D2, NA, NameB, S7), InductionRow(P24, DNone, NameA, NameB, S7)>>

\* a contract workbook is supplied: its located columns and its rows vary
ContractInputs ==
    {<<Workbook(<<>>, ContractBase, <<>>, <<>>, AllCompTec, <<>>, <<>>, <<>>, <<>>, <<>>),
       [supplied |-> TRUE, found |-> f, rows |-> rows]>> :
        f \in {ContractFields} \cup {ContractFields \ {x} : x \in ContractFields},
        rows \in SeqUpTo({[dni |-> d, nombres |-> n, paterno |-> <<"P", " ">>,
                           materno |-> <<" ", "M">>] :
                              d \in {D1Float, D2, DNone}, n \in {<<"Z", " ">>, NA}},
                         MaxRows)}

Inputs ==
    ReducerInputs \cup ReducerContractInputs \cup CellInputs \cup AuxInputs \cup MetricInputs \cup ContractInputs

(***************************************************************************)
(* The state machine: one action per block of extract_data_from_excel      *)
(***************************************************************************)
Init ==
    /\ pc = "concat"
    /\ \E i \in Inputs : wb = i[1] /\ contract_file = i[2]
    /\ all_data = <<>>
    /\ filtered = <<>>
    /\ final_df = <<>>

Step(from, to, ad) ==
    /\ pc = from
    /\ pc' = to
    /\ all_data' = ad
    /\ UNCHANGED <<wb, contract_file, filtered, final_df>>

Concat == Step("concat", "bus", BaseTable(wb))

Bus == Step("bus", "diseno", MergeBus(all_data, wb))

Diseno == Step("diseno", "comp_tec", MergeDiseno(all_data, wb))

CompTec ==
    IF CompTecKeyError(wb)
    THEN Step("comp_tec", "error", all_data)
    ELSE Step("comp_tec", "integracion", MergeCompTec(all_data, wb))

Integracion == Step("integracion", "rsu", MergeIntegracion(all_data, wb))

Rsu == Step("rsu", "estress", MergeRsu(all_data, wb))

Estress == Step("estress", "hab", MergeEstress(all_data, wb))

HabCom == Step("hab", "contract", MergeHabCom(all_data, wb))

Contract == Step("contract", "numeric", ContractStep(all_data, contract_file))

Numeric == Step("numeric", "metrics", CoerceScores(all_data))

ComputeMetrics == Step("metrics", "filter", AddMetrics(all_data))

Filter ==
    /\ pc = "filter"
    /\ filtered' = FilterRows(all_data)
    /\ pc' = IF filtered' = <<>> THEN "done" ELSE "reduce"
    /\ UNCHANGED <<wb, contract_file, all_data, final_df>>

BestPeriod ==
    /\ pc = "reduce"
    /\ final_df' = Reduce(filtered)
    /\ pc' = "done"
    /\ UNCHANGED <<wb, contract_file, all_data, filtered>>

Next ==
    \/ Concat
    \/ Bus
    \/ Diseno
    \/ CompTec
    \/ Integracion
    \/ Rsu
    \/ Estress
    \/ HabCom
    \/ Contract
    \/ Numeric
    \/ ComputeMetrics
    \/ Filter
    \/ BestPeriod

Spec == Init /\ [][Next]_vars

(***************************************************************************)
(* Properties                                                              *)
(***************************************************************************)
Rows(t) == {t[i] : i \in 1..Len(t)}

Abs(n) == IF n < 0 THEN 0 - n ELSE n

\* the number of components of a coerced row that are greater than 0
PositiveCount(r) == Cardinality({c \in Range(numeric_columns) : r[c] > 0})

\* the rows of the annotated table that pass the year and score filters
Survivors ==
    {r \in Rows(all_data) : r.Year \in {2024, 2025} /\ SumOver(r, numeric_columns) > 0}

NoRepeatedDNI ==
    \A i, j \in 1..Len(final_df) : i # j => final_df[i].DNI # final_df[j].DNI

\* C1 as stated: the output repeats no DNI and has as many rows as there are
\* distinct identifiers (digit strings; a missing DNI is no identifier) among
\* the rows that survive the filters.
ClaimC1 ==
    pc = "done" =>
        /\ NoRepeatedDNI
        /\ Len(final_df) = Cardinality({r.DNI : r \in Survivors} \ {NA})

\* C1 amended: the output repeats no DNI value, and its row count is the number
\* of distinct identifiers among the surviving rows plus one when some
\* surviving row has a missing DNI (those rows are reduced to a single row).
TheoremC1 ==
    pc = "done" =>
        /\ NoRepeatedDNI
        /\ Len(final_df) = Cardinality({r.DNI : r \in Survivors} \ {NA})
                           + (IF \E r \in Survivors : r.DNI = NA THEN 1 ELSE 0)

WitnessC1 ==
    /\ pc = "done"
    /\ Len(final_df) >= 2
    /\ Len(filtered) > Len(final_df)
    /\ \E r \in Rows(final_df) : r.DNI = NA
    /\ \E r \in Rows(final_df) : r.DNI # NA

RankKey(marks, average, year) == <<marks, average, IF year = 2025 THEN 1 ELSE 0>>

LexLeq(a, b) ==
    \/ a[1] < b[1]
    \/ a[1] = b[1] /\ a[2] < b[2]
    \/ a[1] = b[1] /\ a[2] = b[2] /\ a[3] <= b[3]

\* C2: the row kept for a DNI is one of its candidate rows and is maximal
\* among them under (Marks_Out_Of_20, Average, YearPref); when a 2024 and a
\* 2025 row tie at the top on both metrics, Highest_Score_Year is 2025.
TheoremC2 ==
    pc = "done" =>
        \A w \in Rows(final_df) :
            /\ \E f \in Rows(filtered) :
                   /\ f.DNI = w.DNI /\ f.Year = w.Highest_Score_Year
                   /\ f.Periodo = w.Periodo /\ f.Average = w.Average
                   /\ f.Marks_Out_Of_20 = w.Marks_Out_Of_20
            /\ \A f \in Rows(filtered) :
                   f.DNI = w.DNI =>
                       LexLeq(RankKey(f.Marks_Out_Of_20, f.Average, f.Year),
                              RankKey(w.Marks_Out_Of_20, w.Average, w.Highest_Score_Year))
            /\ (\E f \in Rows(filtered) :
                   /\ f.DNI = w.DNI /\ f.Year = 2025
                   /\ f.Marks_Out_Of_20 = w.Marks_Out_Of_20 /\ f.Average = w.Average)
               => w.Highest_Score_Year = 2025

\* a 2024 row precedes a 2025 row of the same person, the two tie on both
\* metrics at the top, and the 2025 row is the one kept
WitnessC2 ==
    /\ pc = "done"
    /\ \E i, j \in 1..Len(filtered) :
           /\ i < j
           /\ filtered[i].DNI = filtered[j].DNI
           /\ filtered[i].Year = 2024 /\ filtered[j].Year = 2025
           /\ filtered[i].Marks_Out_Of_20 = filtered[j].Marks_Out_Of_20
           /\ filtered[i].Average = filtered[j].Average
           /\ \E w \in Rows(final_df) :
                  /\ w.DNI = filtered[i].DNI
                  /\ w.Marks_Out_Of_20 = filtered[i].Marks_Out_Of_20
                  /\ w.Average = filtered[i].Average
                  /\ w.Highest_Score_Year = 2025

\* the identifiers of the supplied contract workbook
ContractIds ==
    IF contract_file.found = ContractFields
    THEN {normalize_dni_value(contract_file.rows[i].dni) : i \in 1..Len(contract_file.rows)}
         \ {NA}
    ELSE {}

\* C3: with a contract supplied, every DNI of the output is in the contract.
TheoremC3 ==
    (pc = "done" /\ contract_file.supplied) =>
        \A r \in Rows(final_df) : r.DNI \in ContractIds

\* a person with a 2024/2025 row and a positive grade is left out, another is kept
WitnessC3 ==
    /\ pc = "done"
    /\ contract_file.supplied
    /\ final_df # <<>>
    /\ \E b \in Rows(wb.induccion) :
           /\ extract_year(b.Periodo) \in {2024, 2025}
           /\ ToNumericFill0(b.Calificacion) > 0
           /\ normalize_dni_value(b.DNI) # NA
           /\ normalize_dni_value(b.DNI) \notin ContractIds
           /\ \A r \in Rows(final_df) : r.DNI # normalize_dni_value(b.DNI)

\* C4 as stated: a contract workbook that lacks one of the four columns is
\* treated as no contract: the output equals the output without a contract.
ClaimC4 ==
    (pc = "done" /\ contract_file.supplied /\ contract_file.found # ContractFields) =>
        final_df = extract_data_from_excel(wb, NoContract)

\* C5 as stated: a technical-competency sheet that lacks one of the seven
\* challenge columns does not abort the pipeline.
ClaimC5 ==
    wb.comp_tec_cols # Range(comp_tec_columns) => pc # "error"

\* C6 as stated: after the joins, a base row without identifier has no library,
\* social-responsibility, stress or communication score from any sheet row.
ClaimC6 ==
    pc = "contract" =>
        \A r \in Rows(all_data) :
            r.DNI = NA =>
                /\ r.bus_biblioteca = NA
                /\ r.rsu = NA
                /\ r.estress = NA
                /\ r.hab_comunicacion = NA

\* C7: for every annotated row with k positive components, Percentage is
\* k/14*100 rounded to the nearest hundredth and lies in [0, 100],
\* Marks_Out_Of_20 is Percentage/5 rounded to the nearest hundredth and lies in
\* [0, 20], and a row with at least as many positive components never has a
\* lower mark, whatever the scores are.
TheoremC7 ==
    pc \in {"filter", "reduce", "done"} =>
        \A r \in Rows(all_data) :
            /\ 2 * Abs(Len(numeric_columns) * r.Percentage - 10000 * PositiveCount(r))
                   <= Len(numeric_columns)
            /\ 0 <= r.Percentage /\ r.Percentage <= 10000
            /\ 2 * Abs(5 * r.Marks_Out_Of_20 - r.Percentage) <= 5
            /\ 0 <= r.Marks_Out_Of_20 /\ r.Marks_Out_Of_20 <= 2000
            /\ \A q \in Rows(all_data) :
                   PositiveCount(r) <= PositiveCount(q)
                       => r.Marks_Out_Of_20 <= q.Marks_Out_Of_20

\* a row with all fourteen components, beside a row with fewer components and
\* a larger total
WitnessC7 ==
    /\ pc = "filter"
    /\ \E r, q \in Rows(all_data) :
           /\ PositiveCount(r) = Len(numeric_columns)
           /\ r.Marks_Out_Of_20 = 2000
           /\ PositiveCount(q) < PositiveCount(r)
           /\ PositiveCount(q) > 0
           /\ q.Marks_Out_Of_20 < r.Marks_Out_Of_20
    /\ \E r, q \in Rows(all_data) :
           /\ PositiveCount(q) < PositiveCount(r)
           /\ SumOver(q, numeric_columns) > SumOver(r, numeric_columns)

AllZero(r) == \A c \in Range(numeric_columns) : r[c] = 0

\* C8: every output row has a component greater than 0 and a Percentage
\* greater than 0, and a person all of whose rows have only zero components is
\* not in the output.
TheoremC8 ==
    pc = "done" =>
        /\ \A r \in Rows(final_df) :
               /\ \E c \in Range(numeric_columns) : r[c] > 0
               /\ r.Percentage > 0
        /\ \A p \in Rows(all_data) :
               (\A r \in Rows(all_data) : r.DNI = p.DNI => AllZero(r))
                   => \A r \in Rows(final_df) : r.DNI # p.DNI

\* a person with a 2024/2025 row and only zero components, and an output row
WitnessC8 ==
    /\ pc = "done"
    /\ final_df # <<>>
    /\ \E p \in Rows(all_data) :
           /\ p.Year \in {2024, 2025}
           /\ \A r \in Rows(all_data) : r.DNI = p.DNI => AllZero(r)
           /\ \A r \in Rows(final_df) : r.DNI # p.DNI

\* section 4.2 of the specification: whitespace runs collapsed, ends trimmed
TextNormalize(x) == IF x = NA THEN NA ELSE Strip(CollapseSpaces(x))

SameNames(r, d) ==
    /\ r.Nombre # NA /\ r.Apellido # NA
    /\ TextNormalize(r.Nombre) = TextNormalize(d.Nombre)
    /\ TextNormalize(r.Apellido) = TextNormalize(d.Apellido)

SameBaseRow(r, q) ==
    /\ r.Periodo = q.Periodo /\ r.DNI = q.DNI /\ r.Nombre = q.Nombre
    /\ r.Apellido = q.Apellido /\ r.induccion = q.induccion

\* C9 as stated: after the name-keyed joins, a base row whose names equal a
\* sheet row's names up to whitespace has that sheet row's scores.
ClaimC9 ==
    pc = "rsu" =>
        \A r \in Rows(all_data) :
            /\ \A d \in Rows(wb.diseno) :
                   SameNames(r, d) =>
                       \E q \in Rows(all_data) :
                           SameBaseRow(r, q) /\ q.diseno_sesion = d.Promedio
            /\ \A d \in Rows(wb.comp_tec) :
                   SameNames(r, d) =>
                       \E q \in Rows(all_data) :
                           /\ SameBaseRow(r, q)
                           /\ \A c \in Range(comp_tec_columns) : q[c] = d[c]
            /\ \A d \in Rows(wb.integracion) :
                   SameNames(r, d) =>
                       \E q \in Rows(all_data) :
                           SameBaseRow(r, q) /\ q.integracion = d.Tarea

ContractRowOf(dni) ==
    CHOOSE c \in Rows(ContractTable(contract_file)) : c.DNI = dni

\* C10: the contract step keeps, in order, the rows whose DNI is in the
\* contract; a name the base supplied is unchanged and a missing name becomes
\* the contract's name for that DNI.
TheoremC10 ==
    [][(pc = "contract" /\ contract_file.supplied) =>
        LET kept == SelectSeq(all_data, LAMBDA r : r.DNI \in ContractIds)
        IN  /\ Len(all_data') = Len(kept)
            /\ \A i \in 1..Len(kept) :
                   /\ all_data'[i].DNI = kept[i].DNI
                   /\ all_data'[i].Nombre =
                          IF kept[i].Nombre # NA THEN kept[i].Nombre
                          ELSE ContractRowOf(kept[i].DNI).Nombre
                   /\ all_data'[i].Apellido =
                          IF kept[i].Apellido # NA THEN kept[i].Apellido
                          ELSE ContractRowOf(kept[i].DNI).Apellido]_vars

\* after the contract step: one row kept its base name although the contract
\* has another, and one row whose base name was missing has the contract's
WitnessC10 ==
    /\ pc = "numeric"
    /\ contract_file.supplied
    /\ \E r \in Rows(all_data) :
           \E b \in Rows(wb.induccion) :
               /\ b.Periodo = r.Periodo /\ normalize_dni_value(b.DNI) = r.DNI
               /\ b.Nombre # NA
               /\ r.Nombre = b.Nombre
               /\ ContractRowOf(r.DNI).Nombre # b.Nombre
    /\ \E r \in Rows(all_data) :
           \E b \in Rows(wb.induccion) :
               /\ b.Periodo = r.Periodo /\ normalize_dni_value(b.DNI) = r.DNI
               /\ b.Nombre = NA /\ b.Apellido = NA
               /\ r.Nombre = ContractRowOf(r.DNI).Nombre
               /\ r.Apellido = ContractRowOf(r.DNI).Apellido
               /\ r.Nombre # NA /\ r.Apellido # NA

====
